---- MODULE Spec2Model ----
(***************************************************************************)
(* A state-machine model of the Kalshi Discord bot: the watchlist store,   *)
(* the /watch and /unwatch handlers and the periodic alert sweep of        *)
(* src/bot.py, and the market-data client (kalshi_get, market_snapshot)    *)
(* of src/bot.py and src/vol_feature.py.                                   *)
(*                                                                         *)
(* Prices and thresholds are written in hundredths: the integer 48 stands  *)
(* for the Python float 0.48 (48 / 100.0), a threshold 50 for the float    *)
(* 0.50.  Python's None is NoneVal.  A Python dict, which keeps insertion  *)
(* order, is a sequence of [k, v] records with distinct keys.              *)
(***************************************************************************)
EXTENDS Integers, Sequences, FiniteSets, TLC

VARIABLES
  watches,      \* bot.py `watches`: dict gid -> dict ticker -> {"threshold": thr}
  watchFile,    \* the document last written to data/watches.json
  histories,    \* bot.py `histories`: ticker -> list of [ts, yes]
  histFile,     \* the document last written to data/histories.json
  quotes,       \* vol_feature.py `_QUOTES`: ticker -> list of {"ts", "yes"}
  quotesFile,   \* the document last written to data/quotes.json
  now,          \* int(time.time())
  diskFaulty,   \* whether the disk may reject a write (fixed by the environment)
  cmds,         \* number of /watch and /unwatch commands handled so far
  viable,       \* gids for which client.get_guild(..) has a text channel
  closed,       \* client.is_closed()
  pc,           \* position of the alert_loop task
  sweep,        \* locals of alert_loop: the two list(...) snapshots, ticker, thr, yes
  notified,     \* per (gid, ticker): notifications sent since its last /watch
  reply,        \* the last followup message of a command handler
  fx,           \* one market-data call in flight (kalshi_get / market_snapshot)
  delta,        \* what _delta_over_minutes last returned to _vol_cmd
  gen           \* one chunk_lines call: its arguments and the chunks it yielded

vars == <<watches, watchFile, histories, histFile, quotes, quotesFile, now, diskFaulty, cmds, viable,
          closed, pc, sweep, notified, reply, fx, delta, gen>>

\* Python None where a number may stand (a threshold, a price)
NoneVal == -1000
\* str(None), the guild id of a command run in a DM; also "no value" for names
NoGuild == "None"

(***************************************************************************)
(* Bounds of the model.                                                    *)
(***************************************************************************)
MaxCmds == 2           \* commands handled in one behaviour
MaxSamples == 2        \* samples one tape may hold before upstream stops pricing

Communities == {"1", "2"}          \* str(interaction.guild_id) of two guilds
GuildIds == Communities \cup {NoGuild}   \* NoGuild: the command was run in a DM
Tickers == {"KXA1", "KXB2"}
RawTickers == {"KXA1", "kxa1 ", "KXB2"}  \* what a user may type
ThresholdInputs == {NoneVal, 35, 150}

(***************************************************************************)
(* Python dicts as sequences of [k, v] records.                            *)
(***************************************************************************)
DictHas(d, key) == \E n \in DOMAIN d : d[n].k = key

DictGet(d, key, default) ==
  IF DictHas(d, key) THEN d[CHOOSE n \in DOMAIN d : d[n].k = key].v ELSE default

DictSet(d, key, val) ==
  IF DictHas(d, key)
  THEN [n \in DOMAIN d |-> IF d[n].k = key THEN [k |-> key, v |-> val] ELSE d[n]]
  ELSE Append(d, [k |-> key, v |-> val])

DictPop(d, key) == SelectSeq(d, LAMBDA e : e.k # key)

DictKeys(d) == [n \in DOMAIN d |-> d[n].k]

(***************************************************************************)
(* Storage.                                                                *)
(***************************************************************************)
\* save_json leaving the document as it was
save_json_skipped(file, obj, ok) == file

\* what is left of a document whose write failed after the file was opened:
\* write_text opens the file for writing, which empties it, before it writes;
\* no entry of the document can be read back
Truncated(obj) == [n \in DOMAIN obj |-> <<>>]

\* how a write can end: the document is replaced; the file cannot be opened
\* and keeps its content; the write fails after the file was opened
Outcomes == {"written", "refused", "torn"}

\* save_json: the write replaces the document, or fails and is swallowed
save_json(file, obj, ok) ==
  IF ok = "written" THEN obj
  ELSE IF ok = "refused" THEN file
  ELSE Truncated(obj)

\* whether a write succeeds: the environment decides, when the disk is faulty
WriteOutcomes == IF diskFaulty THEN Outcomes ELSE {"written"}

\* extract_ticker(ticker) or ticker.upper().strip(), on the inputs of RawTickers
extract_ticker(text) ==
  CASE text = "KXA1" -> "KXA1"
    [] text = "kxa1 " -> "KXA1"
    [] text = "KXB2" -> "KXB2"

\* record_price: None is ignored; otherwise append [now, yes] and trim to 72 h
RetentionSecs == 259200

record_price(H, ticker, yes, t) ==
  IF yes = NoneVal THEN H
  ELSE LET arr == Append(H[ticker], <<t, yes>>)
           cutoff == t - RetentionSecs
       IN [H EXCEPT ![ticker] = SelectSeq(arr, LAMBDA row : row[1] >= cutoff)]

(***************************************************************************)
(* Market-data client: what one base answers, and JSON payloads.  A        *)
(* payload is one record shape for both endpoints: `market` and its fields *)
(* for /markets/{ticker}, the `yes` and `no` level lists (each level its   *)
(* "price", NoneVal when the key is missing) for /markets/{ticker}/        *)
(* orderbook.                                                              *)
(***************************************************************************)
\* a JSON string where the code expects a number
Mistyped == -2000

NoBody ==
  [shape |-> "none", market |-> "absent", status |-> "", yes_ask |-> NoneVal,
   yes_bid |-> NoneVal, last_price |-> NoneVal, volume |-> NoneVal,
   yes |-> <<>>, no |-> <<>>]

DetailPayloads ==
  { [NoBody EXCEPT !.shape = "list"],
    [NoBody EXCEPT !.shape = "dict", !.market = "null"],
    [NoBody EXCEPT !.shape = "dict"] }
  \cup
  { [shape |-> "dict", market |-> "record", status |-> s, yes_ask |-> a,
     yes_bid |-> b, last_price |-> l, volume |-> 7, yes |-> <<>>, no |-> <<>>] :
      s \in {"", "active", "closed", "expired", "settled"},
      a \in {NoneVal, 55, Mistyped}, b \in {NoneVal, 35},
      l \in {NoneVal, 35, Mistyped} }

BookPayloads ==
  { [NoBody EXCEPT !.shape = "list"] }
  \cup
  { [NoBody EXCEPT !.shape = "dict", !.yes = y, !.no = n] :
      y \in {<<>>, <<55, 35>>, <<Mistyped>>}, n \in {<<>>, <<30>>, <<130>>} }

\* what a base answers to one GET: a transport error (timeout, connection
\* error), or a status, a content type and a body that parses as JSON or not
TransportError ==
  [transport |-> TRUE, status |-> 0, ctype |-> "", parses |-> FALSE, body |-> NoBody]

FailingResponses ==
  { TransportError,
    [transport |-> FALSE, status |-> 200, ctype |-> "text/html", parses |-> FALSE,
     body |-> NoBody],
    [transport |-> FALSE, status |-> 503, ctype |-> "application/json",
     parses |-> TRUE, body |-> NoBody],
    [transport |-> FALSE, status |-> 200, ctype |-> "application/json",
     parses |-> FALSE, body |-> NoBody] }

JsonResponse(payload) ==
  [transport |-> FALSE, status |-> 200, ctype |-> "application/json",
   parses |-> TRUE, body |-> payload]

Responses(path) ==
  FailingResponses \cup
    { JsonResponse(p) : p \in IF path = "market" THEN DetailPayloads ELSE BookPayloads }

\* KALSHI_BASES: the proxy first when PROXY_BASE is set, then the official bases
KALSHI_BASES(proxy) ==
  (IF proxy THEN <<"proxy">> ELSE <<>>)
    \o <<"api.kalshi.com/trade-api/v2", "api.elections.kalshi.com/trade-api/v2">>

NoErr == [kind |-> "none", base |-> ""]

\* the exception one base's answer raises inside the try, "none" when it returns
ResponseError(resp) ==
  IF resp.transport THEN "TransportError"
  ELSE IF resp.ctype # "application/json" THEN "RuntimeError"
  ELSE IF resp.status \notin 200..299 THEN "HTTPStatusError"
  ELSE IF ~resp.parses THEN "JSONDecodeError"
  ELSE "none"

\* What kalshi_get hands its caller: nothing yet, a payload, or an exception.
NotCalled == [status |-> "none", value |-> NoBody, err |-> NoErr]

\* kalshi_get_step raising on the first base that fails
kalshi_get_eager(bases, k, resp) ==
  LET kind == ResponseError(resp)
      log == Append(k.log, [base |-> bases[k.i], resp |-> resp])
  IN IF kind = "none"
     THEN [k EXCEPT !.log = log,
                    !.out = [status |-> "returned", value |-> resp.body, err |-> NoErr]]
     ELSE LET e == [kind |-> kind, base |-> bases[k.i]]
          IN [k EXCEPT !.log = log, !.last_err = e, !.raises = k.raises + 1,
                       !.out = [status |-> "raised", value |-> NoBody, err |-> e]]

\* One pass of kalshi_get's loop body, for the base at index k.i answering resp.
\* k = [i, last_err, log, out, raises]: the loop index, last_err, the answers
\* received so far in this call, what the call handed its caller, and how many
\* exceptions it let through.
kalshi_get_step(bases, k, resp) ==
  LET kind == ResponseError(resp)
      log == Append(k.log, [base |-> bases[k.i], resp |-> resp])
  IN IF kind = "none"
     THEN [k EXCEPT !.log = log,
                    !.out = [status |-> "returned", value |-> resp.body, err |-> NoErr]]
     ELSE LET e == [kind |-> kind, base |-> bases[k.i]]
          IN IF k.i < Len(bases)
             THEN [k EXCEPT !.log = log, !.i = k.i + 1, !.last_err = e]
             ELSE [k EXCEPT !.log = log, !.last_err = e, !.raises = k.raises + 1,
                            !.out = [status |-> "raised", value |-> NoBody, err |-> e]]

NewCall == [i |-> 1, last_err |-> NoErr, log |-> <<>>, out |-> NotCalled, raises |-> 0]

(***************************************************************************)
(* market_snapshot of bot.py, as a function of what its two fetches hand   *)
(* it.  A result is [yes, no, last, volume, status, yes_bid]; yes and no   *)
(* are in hundredths, last is the detail record's last_price as returned   *)
(* (cents, never divided), yes_bid is used by vol_feature.py only.         *)
(***************************************************************************)
NoResult ==
  [yes |-> NoneVal, no |-> NoneVal, last |-> NoneVal, volume |-> 0,
   status |-> "unknown", yes_bid |-> NoneVal]

ClosedStatuses == {"closed", "expired", "settled"}

\* lines 216-243: the try block.  how = "return" when the function returns from
\* it (or falls through to the final return), "except" when it raised.
bot_detail(d) ==
  IF d.status # "returned" \/ d.value.shape # "dict" \/ d.value.market = "null"
  THEN [r |-> NoResult, how |-> "except"]
  ELSE LET p == d.value
           status == IF p.market = "absent" \/ p.status = "" THEN "unknown" ELSE p.status
           volume == IF p.volume = NoneVal THEN 0 ELSE p.volume
           raw == IF p.yes_ask # NoneVal THEN p.yes_ask
                  ELSE IF p.yes_bid # NoneVal THEN p.yes_bid
                  ELSE p.last_price
           seen == [NoResult EXCEPT !.status = status, !.last = p.last_price,
                                    !.volume = volume]
       IN IF status \in ClosedStatuses
          THEN [r |-> [NoResult EXCEPT !.status = status], how |-> "return"]
          ELSE IF raw = Mistyped
          THEN [r |-> seen, how |-> "except"]
          ELSE IF raw = NoneVal
          THEN [r |-> seen, how |-> "return"]
          ELSE [r |-> [seen EXCEPT !.yes = raw, !.no = 100 - raw], how |-> "return"]

LevelPrice(level, default) == IF level = NoneVal THEN default ELSE level

SeqMin(s) == CHOOSE x \in {s[n] : n \in DOMAIN s} : \A n \in DOMAIN s : x <= s[n]

SeqMax(s) == CHOOSE x \in {s[n] : n \in DOMAIN s} : \A n \in DOMAIN s : x >= s[n]

HasMistyped(side) == \E n \in DOMAIN side : side[n] = Mistyped

\* lines 247-256: the order-book fallback of the except branch
bot_book(r, b) ==
  IF b.status # "returned" \/ b.value.shape # "dict" THEN r
  ELSE LET yside == b.value.yes
       IN IF yside = <<>> \/ HasMistyped(yside) THEN r
          ELSE LET best_ask == SeqMin([n \in DOMAIN yside |-> LevelPrice(yside[n], 100)])
               IN [r EXCEPT !.yes = best_ask, !.no = 100 - best_ask]

bot_needs_book(d) == bot_detail(d).how = "except"

bot_market_snapshot(d, b) ==
  IF bot_needs_book(d) THEN bot_book(bot_detail(d).r, b) ELSE bot_detail(d).r

(***************************************************************************)
(* vol_feature.py: its quote cache and its market_snapshot, which asks the *)
(* order book first and records its estimate.                              *)
(***************************************************************************)
QuoteCap == 500

LastN(s, n) == IF Len(s) <= n THEN s ELSE SubSeq(s, Len(s) - n + 1, Len(s))

_record_snapshot(Q, ticker, yes_est, t) ==
  IF yes_est = NoneVal THEN Q
  ELSE [Q EXCEPT ![ticker] = LastN(Append(Q[ticker], [ts |-> t, yes |-> yes_est]), QuoteCap)]

best_price_from_book(side) ==
  IF side = <<>> THEN NoneVal
  ELSE SeqMax([n \in DOMAIN side |-> LevelPrice(side[n], 0)])

yes_from_no(no_price) == IF no_price # NoneVal THEN 100 - no_price ELSE NoneVal

\* lines 147-152: yes_bid is kept when only the no side raises
vol_book(b) ==
  IF b.status # "returned" \/ b.value.shape # "dict" \/ HasMistyped(b.value.yes)
  THEN [yes_bid |-> NoneVal, no_bid |-> NoneVal]
  ELSE [yes_bid |-> best_price_from_book(b.value.yes),
        no_bid |-> IF HasMistyped(b.value.no) THEN NoneVal
                   ELSE best_price_from_book(b.value.no)]

\* lines 153-160
vol_detail(d) ==
  IF d.status # "returned" \/ d.value.shape # "dict"
  THEN [vol |-> NoneVal, last_yes |-> NoneVal]
  ELSE IF d.value.market # "record"
  THEN [vol |-> NoneVal, last_yes |-> NoneVal]
  ELSE [vol |-> d.value.volume,
        last_yes |-> IF d.value.last_price \in {NoneVal, Mistyped} THEN NoneVal
                     ELSE d.value.last_price]

vol_market_snapshot(b, d) ==
  LET ob == vol_book(b)
      m == vol_detail(d)
      yes_est == IF ob.yes_bid # NoneVal THEN ob.yes_bid
                 ELSE IF ob.no_bid # NoneVal THEN yes_from_no(ob.no_bid)
                 ELSE m.last_yes
  IN [yes |-> yes_est, no |-> ob.no_bid, last |-> m.last_yes, volume |-> m.vol,
      status |-> "", yes_bid |-> ob.yes_bid]

\* _delta_over_minutes: (None, None, None, None) when the series is empty
NoDelta == [delta |-> NoneVal, frm |-> NoneVal, to |-> NoneVal, window |-> NoneVal]

\* lines 134-137 and 139-142: the result for the samples first and last.  A
\* yes of k hundredths is the float k / 100.0, and round(yes * 100) is k.
DeltaBetween(first, last) ==
  LET elapsed == (last.ts - first.ts) \div 60
  IN [delta |-> last.yes - first.yes, frm |-> first.yes, to |-> last.yes,
      window |-> IF elapsed < 1 THEN 1 ELSE elapsed]

\* _delta_over_minutes with no result when no sample lies in the window
_delta_window_only(Q, ticker, minutes, t) ==
  LET series == Q[ticker]
      cutoff == t - minutes * 60
      older_points == SelectSeq(series, LAMBDA p : p.ts <= t /\ p.ts >= cutoff)
  IN IF series = <<>> THEN NoDelta
     ELSE IF Len(older_points) < 1
     THEN NoDelta
     ELSE DeltaBetween(older_points[1], series[Len(series)])

_delta_over_minutes(Q, ticker, minutes, t) ==
  LET series == Q[ticker]
      cutoff == t - minutes * 60
      older_points == SelectSeq(series, LAMBDA p : p.ts <= t /\ p.ts >= cutoff)
  IN IF series = <<>> THEN NoDelta
     ELSE IF Len(older_points) < 1
     THEN DeltaBetween(series[1], series[Len(series)])
     ELSE DeltaBetween(older_points[1], series[Len(series)])

(***************************************************************************)
(* One market_snapshot call, step by step.  fx.pc is                       *)
(*   "idle"  no call            "call"  kalshi_get awaits the base fx.k.i  *)
(*   "got"   kalshi_get has returned or raised to market_snapshot          *)
(*   "done"  market_snapshot has returned fx.result                        *)
(***************************************************************************)
FxIdle ==
  [impl |-> "", proxy |-> FALSE, pc |-> "idle", path |-> "", k |-> NewCall,
   detail |-> NotCalled, book |-> NotCalled, result |-> NoResult]

FxTicker == "KXA1"

FxStart(impl, proxy) ==
  [FxIdle EXCEPT !.impl = impl, !.proxy = proxy, !.pc = "call",
                 !.path = IF impl = "bot" THEN "market" ELSE "orderbook"]

\* a base answers the GET of kalshi_get
FxRespond ==
  /\ fx.pc = "call"
  /\ \E resp \in Responses(fx.path) :
        LET k == kalshi_get_step(KALSHI_BASES(fx.proxy), fx.k, resp)
        IN fx' = [fx EXCEPT !.k = k,
                            !.pc = IF k.out.status = "none" THEN "call" ELSE "got"]
  /\ UNCHANGED <<watches, watchFile, histories, histFile, quotes, quotesFile, now,
                 diskFaulty, cmds, viable, closed, pc, sweep, notified, reply, delta, gen>>

\* market_snapshot goes on after fetch_market / fetch_orderbook
fx_continue(ok) ==
  LET out == fx.k.out
  IN IF fx.impl = "bot"
     THEN /\ UNCHANGED <<quotes, quotesFile, gen>>
          /\ IF fx.path = "market"
             THEN IF bot_needs_book(out)
                  THEN fx' = [fx EXCEPT !.detail = out, !.pc = "call",
                                        !.path = "orderbook", !.k = NewCall]
                  ELSE fx' = [fx EXCEPT !.detail = out, !.pc = "done",
                                        !.result = bot_market_snapshot(out, NotCalled)]
             ELSE fx' = [fx EXCEPT !.book = out, !.pc = "done",
                                   !.result = bot_market_snapshot(fx.detail, out)]
     ELSE IF fx.path = "orderbook"
          THEN /\ fx' = [fx EXCEPT !.book = out, !.pc = "call", !.path = "market",
                                   !.k = NewCall]
               /\ UNCHANGED <<quotes, quotesFile, gen>>
          ELSE LET res == vol_market_snapshot(fx.book, out)
               IN /\ fx' = [fx EXCEPT !.detail = out, !.pc = "done", !.result = res]
                  /\ quotes' = _record_snapshot(quotes, FxTicker, res.yes, now)
                  /\ quotesFile' = IF res.yes = NoneVal THEN quotesFile
                                   ELSE save_json(quotesFile, quotes', ok)

FxContinue ==
  /\ fx.pc = "got"
  /\ \E ok \in WriteOutcomes : fx_continue(ok)
  /\ UNCHANGED <<watches, watchFile, histories, histFile, now, diskFaulty, cmds,
                 viable, closed, pc, sweep, notified, reply, delta, gen>>

\* the yes prices the sweep can get from market_snapshot
SweepYes ==
  { bot_market_snapshot(d, b).yes :
      d \in { [status |-> "returned", value |-> p, err |-> NoErr] : p \in DetailPayloads }
            \cup { [status |-> "raised", value |-> NoBody,
                    err |-> [kind |-> "TransportError", base |-> ""]] },
      b \in { [status |-> "returned", value |-> p, err |-> NoErr] : p \in BookPayloads }
            \cup { [status |-> "raised", value |-> NoBody,
                    err |-> [kind |-> "TransportError", base |-> ""]] } }

(***************************************************************************)
(* Command handlers.  Between the defer and the followup a handler does    *)
(* not await: its mutation and its save are one step.                      *)
(***************************************************************************)
Threshold(W, g, t) ==
  IF DictHas(W, g) /\ DictHas(DictGet(W, g, <<>>), t)
  THEN DictGet(DictGet(W, g, <<>>), t, NoneVal).threshold
  ELSE NoneVal

Watched(W, g, t) == DictHas(W, g) /\ DictHas(DictGet(W, g, <<>>), t)

\* watch_cmd that keeps the entry of an instrument already watched
watch_cmd_insert_only(gid, raw, threshold, ok) ==
  IF gid = NoGuild
  THEN /\ reply' = "server_only"
       /\ UNCHANGED <<watches, watchFile, notified, gen>>
  ELSE LET tick == extract_ticker(raw)
           old == DictGet(watches, gid, <<>>)
           w == IF DictHas(old, tick) THEN old
                ELSE DictSet(old, tick, [threshold |-> threshold])
           W == DictSet(watches, gid, w)
       IN /\ watches' = W
          /\ watchFile' = save_json(watchFile, W, ok)
          /\ notified' = [notified EXCEPT ![<<gid, tick>>] = 0]
          /\ reply' = "watching"

\* watch_cmd that removes the entry of an instrument before it sets it
watch_cmd_moves_last(gid, raw, threshold, ok) ==
  IF gid = NoGuild
  THEN /\ reply' = "server_only"
       /\ UNCHANGED <<watches, watchFile, notified, gen>>
  ELSE LET tick == extract_ticker(raw)
           w == DictSet(DictPop(DictGet(watches, gid, <<>>), tick), tick,
                        [threshold |-> threshold])
           W == DictSet(watches, gid, w)
       IN /\ watches' = W
          /\ watchFile' = save_json(watchFile, W, ok)
          /\ notified' = [notified EXCEPT ![<<gid, tick>>] = 0]
          /\ reply' = "watching"

watch_cmd(gid, raw, threshold, ok) ==
  IF gid = NoGuild
  THEN /\ reply' = "server_only"
       /\ UNCHANGED <<watches, watchFile, notified, gen>>
  ELSE LET tick == extract_ticker(raw)
           w == DictSet(DictGet(watches, gid, <<>>), tick, [threshold |-> threshold])
           W == DictSet(watches, gid, w)
       IN /\ watches' = W
          /\ watchFile' = save_json(watchFile, W, ok)
          /\ notified' = [notified EXCEPT ![<<gid, tick>>] = 0]
          /\ reply' = "watching"

unwatch_cmd(gid, raw, ok) ==
  IF gid = NoGuild
  THEN /\ reply' = "server_only"
       /\ UNCHANGED <<watches, watchFile, gen>>
  ELSE LET tick == extract_ticker(raw)
           old == DictGet(watches, gid, <<>>)
           removed == DictHas(old, tick)
           W == DictSet(watches, gid, DictPop(old, tick))
       IN /\ watches' = W
          /\ watchFile' = save_json(watchFile, W, ok)
          /\ reply' = IF removed THEN "removed" ELSE "not_watched"

\* list_cmd: the lines of the listing, one [ticker, threshold in cents] per entry
\* in the order of the dict; the threshold text is empty when it is None
list_cmd(W, gid) ==
  LET w == DictGet(W, gid, <<>>)
  IN [n \in DOMAIN w |-> <<w[n].k, w[n].v.threshold>>]

WatchCmd ==
  /\ cmds < MaxCmds
  /\ cmds' = cmds + 1
  /\ \E gid \in GuildIds, raw \in RawTickers, thr \in ThresholdInputs, ok \in WriteOutcomes :
        watch_cmd(gid, raw, thr, ok)
  /\ UNCHANGED <<histories, histFile, quotes, quotesFile, now, diskFaulty, viable, closed, pc, sweep, fx, delta, gen>>

UnwatchCmd ==
  /\ cmds < MaxCmds
  /\ cmds' = cmds + 1
  /\ \E gid \in GuildIds, raw \in RawTickers, ok \in WriteOutcomes :
        unwatch_cmd(gid, raw, ok)
  /\ UNCHANGED <<histories, histFile, quotes, quotesFile, now, diskFaulty, viable, closed, pc, sweep, notified, fx, delta, gen>>

(***************************************************************************)
(* alert_loop.  pc is the await the task is suspended at:                  *)
(*   "wait_ready" client.wait_until_ready()   "sleep"   asyncio.sleep(60)  *)
(*   "backoff"    asyncio.sleep(5)            "scan"    woken, at the loop *)
(*   "fetch"      market_snapshot(ticker)                head            *)
(*   "send"       chan.send(...)              "exited"  the loop has ended *)
(***************************************************************************)
NoSweep == [gq |-> <<>>, gid |-> NoGuild, iq |-> <<>>, ticker |-> NoGuild,
            thr |-> NoneVal, yes |-> NoneVal]

\* the await of market_snapshot for the first pair of `items`
AtFetch(gq, gid, items) ==
  [pc |-> "fetch",
   sw |-> [gq |-> gq, gid |-> gid, iq |-> Tail(items), ticker |-> items[1].k,
           thr |-> items[1].v.threshold, yes |-> NoneVal]]

\* NextCommunity with `break` for the `continue` of a guild without a text channel
RECURSIVE NextCommunity_stops(_, _, _)
NextCommunity_stops(gq, W, V) ==
  IF gq = <<>> THEN [pc |-> "sleep", sw |-> NoSweep]
  ELSE LET gid == Head(gq)
           items == DictGet(W, gid, <<>>)
       IN IF gid \notin V THEN [pc |-> "sleep", sw |-> NoSweep]
          ELSE IF items = <<>> THEN NextCommunity_stops(Tail(gq), W, V)
          ELSE AtFetch(Tail(gq), gid, items)

\* for gid, w in list(watches.items()): skip the guilds without a text channel
RECURSIVE NextCommunity(_, _, _)
NextCommunity(gq, W, V) ==
  IF gq = <<>> THEN [pc |-> "sleep", sw |-> NoSweep]
  ELSE LET gid == Head(gq)
           items == DictGet(W, gid, <<>>)
       IN IF gid \notin V \/ items = <<>>
          THEN NextCommunity(Tail(gq), W, V)
          ELSE AtFetch(Tail(gq), gid, items)

\* `continue` / the end of the inner loop body
NextInstrument(sw, W, V) ==
  IF sw.iq # <<>> THEN AtFetch(sw.gq, sw.gid, sw.iq)
  ELSE NextCommunity(sw.gq, W, V)

TimerFires ==
  /\ pc \in {"wait_ready", "sleep", "backoff"}
  /\ pc' = "scan"
  /\ UNCHANGED <<watches, watchFile, histories, histFile, quotes, quotesFile, now, diskFaulty, cmds, viable,
                 closed, sweep, notified, reply, fx, delta, gen>>

ScanStart ==
  /\ pc = "scan"
  /\ LET nxt == IF closed THEN [pc |-> "exited", sw |-> NoSweep]
                ELSE NextCommunity(DictKeys(watches), watches, viable)
     IN /\ pc' = nxt.pc
        /\ sweep' = nxt.sw
  /\ UNCHANGED <<watches, watchFile, histories, histFile, quotes, quotesFile, now, diskFaulty, cmds, viable,
                 closed, notified, reply, fx, delta, gen>>

\* fetch_return with `yes < thr` for `yes <= thr`
fetch_return_strict(yes, ok) ==
  IF yes = NoneVal
  THEN LET nxt == NextInstrument(sweep, watches, viable)
       IN /\ pc' = nxt.pc
          /\ sweep' = nxt.sw
          /\ UNCHANGED <<histories, histFile, gen>>
  ELSE /\ histories' = record_price(histories, sweep.ticker, yes, now)
       /\ histFile' = save_json(histFile, histories', ok)
       /\ IF sweep.thr # NoneVal /\ yes < sweep.thr
          THEN /\ pc' = "send"
               /\ sweep' = [sweep EXCEPT !.yes = yes]
          ELSE LET nxt == NextInstrument(sweep, watches, viable)
               IN /\ pc' = nxt.pc
                  /\ sweep' = nxt.sw

\* fetch_return where a snapshot without a price raises out of the sweep
fetch_return_aborts(yes, ok) ==
  IF yes = NoneVal
  THEN /\ pc' = "backoff"
       /\ sweep' = NoSweep
       /\ UNCHANGED <<histories, histFile, gen>>
  ELSE /\ histories' = record_price(histories, sweep.ticker, yes, now)
       /\ histFile' = save_json(histFile, histories', ok)
       /\ IF sweep.thr # NoneVal /\ yes <= sweep.thr
          THEN /\ pc' = "send"
               /\ sweep' = [sweep EXCEPT !.yes = yes]
          ELSE LET nxt == NextInstrument(sweep, watches, viable)
               IN /\ pc' = nxt.pc
                  /\ sweep' = nxt.sw

\* fetch_return with `break` for the `continue` after a snapshot without a price
fetch_return_breaks(yes, ok) ==
  IF yes = NoneVal
  THEN LET nxt == NextCommunity(sweep.gq, watches, viable)
       IN /\ pc' = nxt.pc
          /\ sweep' = nxt.sw
          /\ UNCHANGED <<histories, histFile, gen>>
  ELSE /\ histories' = record_price(histories, sweep.ticker, yes, now)
       /\ histFile' = save_json(histFile, histories', ok)
       /\ IF sweep.thr # NoneVal /\ yes <= sweep.thr
          THEN /\ pc' = "send"
               /\ sweep' = [sweep EXCEPT !.yes = yes]
          ELSE LET nxt == NextInstrument(sweep, watches, viable)
               IN /\ pc' = nxt.pc
                  /\ sweep' = nxt.sw

\* market_snapshot returned `yes`; lines 589-597
fetch_return(yes, ok) ==
  IF yes = NoneVal
  THEN LET nxt == NextInstrument(sweep, watches, viable)
       IN /\ pc' = nxt.pc
          /\ sweep' = nxt.sw
          /\ UNCHANGED <<histories, histFile, gen>>
  ELSE /\ histories' = record_price(histories, sweep.ticker, yes, now)
       /\ histFile' = save_json(histFile, histories', ok)
       /\ IF sweep.thr # NoneVal /\ yes <= sweep.thr
          THEN /\ pc' = "send"
               /\ sweep' = [sweep EXCEPT !.yes = yes]
          ELSE LET nxt == NextInstrument(sweep, watches, viable)
               IN /\ pc' = nxt.pc
                  /\ sweep' = nxt.sw

\* the model stops upstream pricing once the tapes hold MaxSamples samples
SamplesHeld == Len(histories["KXA1"]) + Len(histories["KXB2"])

TapeRoom == SamplesHeld < MaxSamples

FetchReturn ==
  /\ pc = "fetch"
  /\ \E yes \in SweepYes, ok \in WriteOutcomes :
        /\ yes # NoneVal => TapeRoom
        /\ yes = NoneVal => ok = "written"
        /\ fetch_return(yes, ok)
  /\ UNCHANGED <<watches, watchFile, quotes, quotesFile, now, diskFaulty, cmds, viable, closed, notified, reply, fx, delta, gen>>

\* send_return without `w[ticker]["threshold"] = None`
send_return_keeps(sent, ok) ==
  IF sent /\ Watched(watches, sweep.gid, sweep.ticker)
  THEN LET nxt == NextInstrument(sweep, watches, viable)
       IN /\ watchFile' = save_json(watchFile, watches, ok)
          /\ notified' = [notified EXCEPT ![<<sweep.gid, sweep.ticker>>] = @ + 1]
          /\ pc' = nxt.pc
          /\ sweep' = nxt.sw
          /\ UNCHANGED watches
  ELSE /\ notified' = IF sent
                      THEN [notified EXCEPT ![<<sweep.gid, sweep.ticker>>] = @ + 1]
                      ELSE notified
       /\ pc' = "backoff"
       /\ sweep' = NoSweep
       /\ UNCHANGED <<watches, watchFile, gen>>

\* send_return without the `except Exception` of the loop: an exception ends the task
send_return_dies(sent, ok) ==
  IF sent /\ Watched(watches, sweep.gid, sweep.ticker)
  THEN LET w == DictSet(DictGet(watches, sweep.gid, <<>>), sweep.ticker,
                        [threshold |-> NoneVal])
           W == DictSet(watches, sweep.gid, w)
           nxt == NextInstrument(sweep, W, viable)
       IN /\ watches' = W
          /\ watchFile' = save_json(watchFile, W, ok)
          /\ notified' = [notified EXCEPT ![<<sweep.gid, sweep.ticker>>] = @ + 1]
          /\ pc' = nxt.pc
          /\ sweep' = nxt.sw
  ELSE /\ notified' = IF sent
                      THEN [notified EXCEPT ![<<sweep.gid, sweep.ticker>>] = @ + 1]
                      ELSE notified
       /\ pc' = "exited"
       /\ sweep' = NoSweep
       /\ UNCHANGED <<watches, watchFile, gen>>

\* send_return clearing the threshold of the ticker in every community
send_return_everywhere(sent, ok) ==
  IF sent /\ Watched(watches, sweep.gid, sweep.ticker)
  THEN LET W == [n \in DOMAIN watches |->
                  [k |-> watches[n].k,
                   v |-> IF DictHas(watches[n].v, sweep.ticker)
                         THEN DictSet(watches[n].v, sweep.ticker, [threshold |-> NoneVal])
                         ELSE watches[n].v]]
           nxt == NextInstrument(sweep, W, viable)
       IN /\ watches' = W
          /\ watchFile' = save_json(watchFile, W, ok)
          /\ notified' = [notified EXCEPT ![<<sweep.gid, sweep.ticker>>] = @ + 1]
          /\ pc' = nxt.pc
          /\ sweep' = nxt.sw
  ELSE /\ notified' = IF sent
                      THEN [notified EXCEPT ![<<sweep.gid, sweep.ticker>>] = @ + 1]
                      ELSE notified
       /\ pc' = "backoff"
       /\ sweep' = NoSweep
       /\ UNCHANGED <<watches, watchFile, gen>>

\* send_return with the threshold cleared and saved before the send is awaited
send_return_clears_first(sent, ok) ==
  IF Watched(watches, sweep.gid, sweep.ticker)
  THEN LET w == DictSet(DictGet(watches, sweep.gid, <<>>), sweep.ticker,
                        [threshold |-> NoneVal])
           W == DictSet(watches, sweep.gid, w)
           nxt == NextInstrument(sweep, W, viable)
       IN /\ watches' = W
          /\ watchFile' = save_json(watchFile, W, ok)
          /\ notified' = IF sent
                         THEN [notified EXCEPT ![<<sweep.gid, sweep.ticker>>] = @ + 1]
                         ELSE notified
          /\ pc' = IF sent THEN nxt.pc ELSE "backoff"
          /\ sweep' = IF sent THEN nxt.sw ELSE NoSweep
  ELSE /\ notified' = IF sent
                      THEN [notified EXCEPT ![<<sweep.gid, sweep.ticker>>] = @ + 1]
                      ELSE notified
       /\ pc' = "backoff"
       /\ sweep' = NoSweep
       /\ UNCHANGED <<watches, watchFile, gen>>

\* chan.send returned (sent) or raised; lines 598-604
send_return(sent, ok) ==
  IF sent /\ Watched(watches, sweep.gid, sweep.ticker)
  THEN LET w == DictSet(DictGet(watches, sweep.gid, <<>>), sweep.ticker,
                        [threshold |-> NoneVal])
           W == DictSet(watches, sweep.gid, w)
           nxt == NextInstrument(sweep, W, viable)
       IN /\ watches' = W
          /\ watchFile' = save_json(watchFile, W, ok)
          /\ notified' = [notified EXCEPT ![<<sweep.gid, sweep.ticker>>] = @ + 1]
          /\ pc' = nxt.pc
          /\ sweep' = nxt.sw
  ELSE \* the send raised, or w[ticker] raised KeyError: except Exception
       /\ notified' = IF sent
                      THEN [notified EXCEPT ![<<sweep.gid, sweep.ticker>>] = @ + 1]
                      ELSE notified
       /\ pc' = "backoff"
       /\ sweep' = NoSweep
       /\ UNCHANGED <<watches, watchFile, gen>>

SendReturn ==
  /\ pc = "send"
  /\ \E sent \in BOOLEAN, ok \in WriteOutcomes :
        /\ (~sent \/ ~Watched(watches, sweep.gid, sweep.ticker)) => ok = "written"
        /\ send_return(sent, ok)
  /\ UNCHANGED <<histories, histFile, quotes, quotesFile, now, diskFaulty, cmds, viable, closed, reply, fx, delta, gen>>

Close ==
  /\ ~closed
  /\ closed' = TRUE
  /\ UNCHANGED <<watches, watchFile, histories, histFile, quotes, quotesFile, now, diskFaulty, cmds, viable,
                 pc, sweep, notified, reply, fx, delta, gen>>

(***************************************************************************)
(* The bot: the stores as loaded at startup, the handlers and the sweep.   *)
(***************************************************************************)
\* data/watches.json as found at startup: absent, or written by an earlier run
StartupDocs ==
  { <<>>,
    << [k |-> "1", v |-> << [k |-> "KXA1", v |-> [threshold |-> 50]],
                            [k |-> "KXB2", v |-> [threshold |-> NoneVal]] >>],
       [k |-> "2", v |-> << [k |-> "KXA1", v |-> [threshold |-> 50]] >>] >> }

\* no chunk_lines call is under way
NoGen == [pc |-> "idle", lines |-> <<>>, max_chars |-> 0, sep |-> <<>>, out |-> <<>>]

Init ==
  /\ watches \in StartupDocs
  /\ watchFile = watches
  /\ histories = [t \in Tickers |-> <<>>]
  /\ histFile = histories
  /\ quotes = [t \in Tickers |-> <<>>]
  /\ quotesFile = quotes
  /\ now = 0
  /\ diskFaulty = FALSE
  /\ cmds = 0
  /\ viable \in {Communities, {"1"}}
  /\ closed = FALSE
  /\ pc = "wait_ready"
  /\ sweep = NoSweep
  /\ notified = [p \in Communities \X Tickers |-> 0]
  /\ reply = NoGuild
  /\ fx = FxIdle
  /\ delta = NoDelta
  /\ gen = NoGen

Next ==
  \/ WatchCmd
  \/ UnwatchCmd
  \/ TimerFires
  \/ ScanStart
  \/ FetchReturn
  \/ SendReturn

Spec == Init /\ [][Next]_vars

(***************************************************************************)
(* The same bot with the client closing at any moment.  The event loop     *)
(* resumes the alert task whenever the await it is suspended at completes: *)
(* a timer fires, httpx answers or times out (20 s), the send returns or   *)
(* raises.                                                                 *)
(***************************************************************************)
NextLive ==
  \/ Next
  \/ Close

Fairness ==
  /\ WF_vars(TimerFires)
  /\ WF_vars(ScanStart)
  /\ WF_vars(FetchReturn)
  /\ WF_vars(SendReturn)

SpecLive == Init /\ [][NextLive]_vars /\ Fairness

(***************************************************************************)
(* The bot with the client staying open, every snapshot of one instrument  *)
(* resolving a price at or below every threshold a user may set, and every *)
(* send returning.  Snapshots of the other instrument may resolve any      *)
(* price or none, and commands arrive as in Spec.                          *)
(***************************************************************************)
AlertTicker == "KXA1"

\* the prices market_snapshot can resolve that no threshold in use lies below
AlertPrices ==
  {y \in SweepYes \ {NoneVal} : \A t \in ThresholdInputs \ {NoneVal} : y <= t}

\* market_snapshot returns to the sweep (lines 589-597); for AlertTicker with a low price
AlertFetchReturn ==
  /\ FetchReturn
  /\ sweep.ticker = AlertTicker =>
       \E yes \in AlertPrices, ok \in Outcomes : fetch_return(yes, ok)

\* chan.send returns (line 598) and the loop goes on with line 599
AlertSendReturn ==
  /\ SendReturn
  /\ \E ok \in Outcomes : send_return(TRUE, ok)

NextAlert ==
  \/ WatchCmd
  \/ UnwatchCmd
  \/ TimerFires
  \/ ScanStart
  \/ AlertFetchReturn
  \/ AlertSendReturn

SpecAlert == Init /\ [][NextAlert]_vars /\ Fairness

(***************************************************************************)
(* One market_snapshot call of either module, against every answer the     *)
(* bases can give.                                                         *)
(***************************************************************************)
InitFetch ==
  /\ watches = <<>>
  /\ watchFile = <<>>
  /\ histories = [t \in Tickers |-> <<>>]
  /\ histFile = histories
  /\ quotes = [t \in Tickers |-> <<>>]
  /\ quotesFile = quotes
  /\ now = 0
  /\ diskFaulty = FALSE
  /\ cmds = 0
  /\ viable = Communities
  /\ closed = FALSE
  /\ pc = "wait_ready"
  /\ sweep = NoSweep
  /\ notified = [p \in Communities \X Tickers |-> 0]
  /\ reply = NoGuild
  /\ fx \in {FxStart(impl, proxy) : impl \in {"bot", "vol"}, proxy \in BOOLEAN}
  /\ delta = NoDelta
  /\ gen = NoGen

NextFetch ==
  \/ FxRespond
  \/ FxContinue

SpecFetch == InitFetch /\ [][NextFetch]_vars
(***************************************************************************)
(* The two price tapes over time: /vol of bot.py records into `histories`, *)
(* /vol of vol_feature.py records into `_QUOTES` and reports the change    *)
(* over a lookback window.  The clock moves between commands.              *)
(***************************************************************************)
MaxTape == 3           \* samples the two tapes may hold together
\* the instants at which commands arrive: a minute apart, and 72 h later
Instants == {0, 60, 120, RetentionSecs, RetentionSecs + 60}
Lookbacks == {1, 15, 4321}      \* minutes; 15 is the default, 4321 is over 72 h

\* the yes_est values market_snapshot of vol_feature.py can return
VolYes ==
  { vol_market_snapshot(b, d).yes :
      b \in { [status |-> "returned", value |-> p, err |-> NoErr] : p \in BookPayloads }
            \cup { [status |-> "raised", value |-> NoBody,
                    err |-> [kind |-> "TransportError", base |-> ""]] },
      d \in { [status |-> "returned", value |-> p, err |-> NoErr] : p \in DetailPayloads }
            \cup { [status |-> "raised", value |-> NoBody,
                    err |-> [kind |-> "TransportError", base |-> ""]] } }

TapeHeld == SamplesHeld + Len(quotes["KXA1"]) + Len(quotes["KXB2"])

Tick ==
  /\ \E t \in Instants : t > now /\ now' = t
  /\ UNCHANGED <<watches, watchFile, histories, histFile, quotes, quotesFile, diskFaulty,
                 cmds, viable, closed, pc, sweep, notified, reply, fx, delta, gen>>

\* vol_cmd of bot.py for one ticker with volume, lines 500-507
vol_cmd(ticker, yes_now, ok) ==
  /\ histories' = record_price(histories, ticker, yes_now, now)
  /\ histFile' = IF yes_now = NoneVal THEN histFile
                 ELSE save_json(histFile, histories', ok)

VolCmd ==
  /\ \E ticker \in Tickers, yes_now \in SweepYes, ok \in WriteOutcomes :
        /\ yes_now # NoneVal => TapeHeld < MaxTape
        /\ yes_now = NoneVal => ok = "written"
        /\ vol_cmd(ticker, yes_now, ok)
  /\ UNCHANGED <<watches, watchFile, quotes, quotesFile, now, diskFaulty, cmds, viable,
                 closed, pc, sweep, notified, reply, fx, delta, gen>>

\* _vol_cmd of vol_feature.py: market_snapshot records yes_est, then the delta
_vol_cmd(ticker, minutes, yes_est, ok) ==
  /\ quotes' = _record_snapshot(quotes, ticker, yes_est, now)
  /\ quotesFile' = IF yes_est = NoneVal THEN quotesFile
                   ELSE save_json(quotesFile, quotes', ok)
  /\ delta' = _delta_over_minutes(quotes', ticker, minutes, now)

QuoteVolCmd ==
  /\ \E ticker \in Tickers, minutes \in Lookbacks, yes_est \in VolYes,
        ok \in WriteOutcomes :
        /\ yes_est # NoneVal => TapeHeld < MaxTape
        /\ yes_est = NoneVal => ok = "written"
        /\ _vol_cmd(ticker, minutes, yes_est, ok)
  /\ UNCHANGED <<watches, watchFile, histories, histFile, now, diskFaulty, cmds, viable,
                 closed, pc, sweep, notified, reply, fx, gen>>

InitTape ==
  /\ watches = <<>>
  /\ watchFile = <<>>
  /\ histories = [t \in Tickers |-> <<>>]
  /\ histFile = histories
  /\ quotes = [t \in Tickers |-> <<>>]
  /\ quotesFile = quotes
  /\ now = 0
  /\ diskFaulty = FALSE
  /\ cmds = 0
  /\ viable = Communities
  /\ closed = FALSE
  /\ pc = "wait_ready"
  /\ sweep = NoSweep
  /\ notified = [p \in Communities \X Tickers |-> 0]
  /\ reply = NoGuild
  /\ fx = FxIdle
  /\ delta = NoDelta
  /\ gen = NoGen

NextTape ==
  \/ Tick
  \/ VolCmd
  \/ QuoteVolCmd

SpecTape == InitTape /\ [][NextTape]_vars

(***************************************************************************)
(* The bot, first started with no documents, on a disk that may fail any   *)
(* write: the file cannot be opened (read-only, no permission), or the     *)
(* write fails after the file was opened (disk full, I/O error).           *)
(***************************************************************************)
InitDisk ==
  /\ watches = <<>>
  /\ watchFile = watches
  /\ histories = [t \in Tickers |-> <<>>]
  /\ histFile = histories
  /\ quotes = [t \in Tickers |-> <<>>]
  /\ quotesFile = quotes
  /\ now = 0
  /\ diskFaulty = TRUE
  /\ cmds = 0
  /\ viable = Communities
  /\ closed = FALSE
  /\ pc = "wait_ready"
  /\ sweep = NoSweep
  /\ notified = [p \in Communities \X Tickers |-> 0]
  /\ reply = NoGuild
  /\ fx = FxIdle
  /\ delta = NoDelta
  /\ gen = NoGen

SpecDisk == InitDisk /\ [][Next]_vars

(***************************************************************************)
(* chunk_lines.  A text is the sequence of its characters; the limits are  *)
(* scaled down from 1800 so that short lines fill a chunk.                 *)
(***************************************************************************)
MaxLines == 3
Newline == "\n"
ChunkLimits == {3, 4}
Separators == {<<Newline>>, <<Newline, Newline>>}
LineTexts == {<<>>, <<"a">>, <<"b", "b">>, <<"c", "c", "c">>, <<"d", "d", "d", "d">>}
LineLists == UNION {[1..n -> LineTexts] : n \in 0..MaxLines}

\* sep.join(parts)
RECURSIVE Join(_, _)
Join(parts, sep) ==
  IF parts = <<>> THEN <<>>
  ELSE IF Len(parts) = 1 THEN parts[1]
  ELSE parts[1] \o sep \o Join(Tail(parts), sep)

\* the for loop of chunk_lines from lines[i] on, and the yield after it
RECURSIVE chunk_loop(_, _, _, _, _, _)
chunk_loop(lines, i, chunk, length, max_chars, sep) ==
  IF i > Len(lines)
  THEN IF chunk # <<>> THEN <<Join(chunk, sep)>> ELSE <<>>
  ELSE LET line == lines[i]
           add == (IF chunk # <<>> THEN sep ELSE <<>>) \o line
       IN IF length + Len(add) > max_chars
          THEN (IF chunk # <<>> THEN <<Join(chunk, sep)>> ELSE <<>>)
               \o chunk_loop(lines, i + 1, <<line>>, Len(line), max_chars, sep)
          ELSE chunk_loop(lines, i + 1, Append(chunk, line), length + Len(add),
                          max_chars, sep)

\* list(chunk_lines(lines, max_chars, sep))
chunk_lines(lines, max_chars, sep) == chunk_loop(lines, 1, <<>>, 0, max_chars, sep)

\* a handler has built its lines and is about to iterate chunk_lines over them
GenCalled(lines, max_chars, sep) ==
  [pc |-> "called", lines |-> lines, max_chars |-> max_chars, sep |-> sep, out |-> <<>>]

\* for chunk in chunk_lines(..): the generator runs to its end
ChunkLines ==
  /\ gen.pc = "called"
  /\ gen' = [gen EXCEPT !.pc = "done",
                        !.out = chunk_lines(gen.lines, gen.max_chars, gen.sep)]
  /\ UNCHANGED <<watches, watchFile, histories, histFile, quotes, quotesFile, now,
                 diskFaulty, cmds, viable, closed, pc, sweep, notified, reply, fx, delta>>

InitChunk ==
  /\ watches = <<>>
  /\ watchFile = <<>>
  /\ histories = [t \in Tickers |-> <<>>]
  /\ histFile = histories
  /\ quotes = [t \in Tickers |-> <<>>]
  /\ quotesFile = quotes
  /\ now = 0
  /\ diskFaulty = FALSE
  /\ cmds = 0
  /\ viable = Communities
  /\ closed = FALSE
  /\ pc = "wait_ready"
  /\ sweep = NoSweep
  /\ notified = [p \in Communities \X Tickers |-> 0]
  /\ reply = NoGuild
  /\ fx = FxIdle
  /\ delta = NoDelta
  /\ gen \in {GenCalled(lines, max_chars, sep) :
                lines \in LineLists, max_chars \in ChunkLimits, sep \in Separators}

NextChunk == ChunkLines

SpecChunk == InitChunk /\ [][NextChunk]_vars

(***************************************************************************)
(* Steps of the sweep and of the handlers, as seen from a pair of states.  *)
(***************************************************************************)
\* market_snapshot handed `yes` to the sweep in this step
FetchReturned(yes) == pc = "fetch" /\ \E ok \in Outcomes : fetch_return(yes, ok)

\* chan.send returned or raised in this step
SendReturned(sent) == pc = "send" /\ \E ok \in Outcomes : send_return(sent, ok)

Pairs == Communities \X Tickers

(***************************************************************************)
(* C1.  One-shot alert, as the code keeps it: per (community, instrument)  *)
(* at most one notification is delivered (its send returned) between two   *)
(* /watch commands for that pair, and from the delivery on the stored      *)
(* threshold of the pair is absent, so that no later sweep notifies again  *)
(* whatever the price.                                                     *)
(***************************************************************************)
C1_OneShot ==
  \A p \in Pairs :
    /\ notified[p] <= 1
    /\ notified[p] = 1 => Threshold(watches, p[1], p[2]) = NoneVal

\* a pair notified once, then swept again at the same low price and resting
C1_Witness ==
  /\ pc = "sleep"
  /\ notified[<<"1", "KXB2">>] = 1
  /\ Watched(watches, "1", "KXB2")
  /\ histories["KXB2"] = << <<0, 35>>, <<0, 35>> >>

(***************************************************************************)
(* C1 as stated: the sweep that sees a resolved yes-price <= T emits       *)
(* exactly one notification and leaves the stored threshold absent.        *)
(***************************************************************************)
C1_AsStated ==
  [][\A sent \in BOOLEAN :
       SendReturned(sent) =>
         /\ notified'[<<sweep.gid, sweep.ticker>>] = 1
         /\ Threshold(watches', sweep.gid, sweep.ticker) = NoneVal]_vars

C3_ReArmPreserved ==
  /\ [][\A sent \in BOOLEAN :
          SendReturned(sent) =>
            \A p \in Pairs :
              Threshold(watches', p[1], p[2]) # Threshold(watches, p[1], p[2]) =>
                /\ p = <<sweep.gid, sweep.ticker>>
                /\ Threshold(watches, p[1], p[2]) = sweep.thr]_vars
  /\ [][\A yes \in SweepYes :
          (FetchReturned(yes) /\ pc' = "send") =>
            Threshold(watches, sweep.gid, sweep.ticker) = sweep.thr]_vars

(***************************************************************************)
(* The market-data client, as seen from one state of a call.               *)
(***************************************************************************)
\* the answer of a base that kalshi_get cannot return
Failed(resp) ==
  \/ resp.transport
  \/ resp.ctype # "application/json"
  \/ resp.status < 200
  \/ resp.status > 299
  \/ ~resp.parses

(***************************************************************************)
(* C4.  kalshi_get asks the bases in list order, one after the other, and  *)
(* goes on to the next base exactly when the one asked failed; it returns  *)
(* the payload of the first base that succeeds and asks no later base; it  *)
(* raises, once and with the error of the last base, exactly when every    *)
(* base failed.                                                            *)
(***************************************************************************)
C4_Fallback ==
  LET bases == KALSHI_BASES(fx.proxy)
      log == fx.k.log
      n == Len(log)
      out == fx.k.out
  IN fx.pc \in {"call", "got"} =>
       /\ n <= Len(bases)
       /\ \A j \in 1..n : log[j].base = bases[j]
       /\ \A j \in 1..(n - 1) : Failed(log[j].resp)
       /\ fx.pc = "call" =>
            /\ n < Len(bases)
            /\ \A j \in 1..n : Failed(log[j].resp)
            /\ out.status = "none"
            /\ fx.k.raises = 0
       /\ fx.pc = "got" =>
            /\ n >= 1
            /\ out.status \in {"returned", "raised"}
            /\ out.status = "raised" <=> (n = Len(bases) /\ \A j \in 1..n : Failed(log[j].resp))
            /\ out.status = "raised" =>
                 /\ fx.k.raises = 1
                 /\ out.err = [kind |-> ResponseError(log[n].resp), base |-> bases[n]]
            /\ out.status = "returned" =>
                 /\ ~Failed(log[n].resp)
                 /\ out.value = log[n].resp.body
                 /\ fx.k.raises = 0

\* the first base answered with an HTML page and the second with JSON
C4_Witness ==
  /\ fx.pc = "got"
  /\ Len(fx.k.log) = 2
  /\ fx.k.log[1].resp.ctype = "text/html"
  /\ fx.k.out.status = "returned"
  /\ fx.k.out.value.shape = "dict"

\* what market_snapshot was handed is a detail record of a closed market
ClosedDetail ==
  /\ fx.detail.status = "returned"
  /\ fx.detail.value.shape = "dict"
  /\ fx.detail.value.market = "record"
  /\ fx.detail.value.status \in {"closed", "expired", "settled"}

(***************************************************************************)
(* C5.  Closed-instrument short-circuit: a market_snapshot, of either      *)
(* module, whose detail record says closed, expired or settled returns no  *)
(* price (none derived from the order book either) and records no sample.  *)
(***************************************************************************)
C5_ClosedShortCircuit ==
  (fx.pc = "done" /\ ClosedDetail) =>
    /\ fx.result.yes = NoneVal
    /\ fx.result.no = NoneVal
    /\ fx.result.last = NoneVal
    /\ fx.result.yes_bid = NoneVal
    /\ quotes = [t \in Tickers |-> <<>>]

\* the detail fetch gave market_snapshot nothing it can use: kalshi_get raised,
\* or the payload is malformed, or the price the module converts is mistyped
DetailFailed ==
  \/ fx.detail.status = "raised"
  \/ /\ fx.detail.status = "returned"
     /\ \/ fx.detail.value.shape # "dict"
        \/ fx.detail.value.market = "null"
        \/ /\ fx.impl = "bot"
           /\ fx.detail.value.status \notin {"closed", "expired", "settled"}
           /\ \/ fx.detail.value.yes_ask = Mistyped
              \/ /\ fx.detail.value.yes_ask = NoneVal
                 /\ fx.detail.value.yes_bid = NoneVal
                 /\ fx.detail.value.last_price = Mistyped
        \/ /\ fx.impl = "vol"
           /\ fx.detail.value.last_price = Mistyped

BookFailed ==
  \/ fx.book.status = "raised"
  \/ /\ fx.book.status = "returned"
     /\ \/ fx.book.value.shape # "dict"
        \/ \E n \in DOMAIN fx.book.value.yes : fx.book.value.yes[n] = Mistyped

(***************************************************************************)
(* C6.  market_snapshot always returns a result, and when both the detail  *)
(* fetch and the order-book fetch failed every price field of the result   *)
(* is absent.                                                              *)
(***************************************************************************)
C6_NoData ==
  (fx.pc = "done" /\ DetailFailed /\ BookFailed) =>
    /\ fx.result.yes = NoneVal
    /\ fx.result.no = NoneVal
    /\ fx.result.last = NoneVal

(***************************************************************************)
(* C7.  Sweep liveness: as long as the client is not closed the loop keeps *)
(* coming back to the start of a sweep and to its idle sleep; after an     *)
(* exception inside a sweep it backs off and then starts another sweep;    *)
(* the task ends only once the client is closed.                           *)
(***************************************************************************)
C7_SweepLiveness ==
  /\ []<>(closed \/ pc = "scan")
  /\ []<>(closed \/ pc \in {"sleep", "backoff"})
  /\ (pc = "backoff") ~> (pc = "scan")
  /\ [](pc = "exited" => closed)

\* an exception was raised inside a sweep and the loop is backing off
C7_Witness ==
  /\ pc = "backoff"
  /\ ~closed
  /\ notified = [p \in Pairs |-> 0]

\* a /watch, a /unwatch handled in this step
WatchHandled(g, raw, t) ==
  cmds' = cmds + 1 /\ \E ok \in Outcomes : watch_cmd(g, raw, t, ok)

UnwatchHandled(g, raw) ==
  cmds' = cmds + 1 /\ \E ok \in Outcomes : unwatch_cmd(g, raw, ok)

\* the lines of a listing that name instrument i
LinesOf(L, i) == {n \in DOMAIN L : L[n][1] = i}

\* communities of gq the sweep does not skip
Sweepable(gq) ==
  SelectSeq(gq, LAMBDA g : g \in viable /\ DictGet(watches, g, <<>>) # <<>>)

(***************************************************************************)
(* C8.  A snapshot that resolves no price records no sample, sends no      *)
(* notification and changes no threshold, and the sweep goes on with the   *)
(* next instrument of the community, else with the first instrument of the *)
(* next community it does not skip, else to its idle sleep.                *)
(***************************************************************************)
C8_NoDataContinues ==
  [][FetchReturned(NoneVal) =>
       /\ histories' = histories
       /\ histFile' = histFile
       /\ notified' = notified
       /\ watches' = watches
       /\ IF sweep.iq # <<>>
          THEN /\ pc' = "fetch"
               /\ sweep'.gid = sweep.gid
               /\ sweep'.ticker = sweep.iq[1].k
               /\ sweep'.thr = sweep.iq[1].v.threshold
               /\ sweep'.iq = Tail(sweep.iq)
               /\ sweep'.gq = sweep.gq
          ELSE IF Sweepable(sweep.gq) # <<>>
          THEN /\ pc' = "fetch"
               /\ sweep'.gid = Sweepable(sweep.gq)[1]
               /\ Append(<<sweep'.ticker>>, sweep'.thr)
                    = list_cmd(watches, sweep'.gid)[1]
               /\ Len(sweep'.iq) = Len(list_cmd(watches, sweep'.gid)) - 1
          ELSE pc' = "sleep"]_vars

\* both fetches of community "1" resolved no price and the sweep is at "2"
C8_Witness ==
  /\ pc = "fetch"
  /\ sweep.gid = "2"
  /\ cmds = 0
  /\ SamplesHeld = 0
  /\ Watched(watches, "1", "KXB2")

(***************************************************************************)
(* C9.  Watchlist round-trip: after /watch of i with t (or without a       *)
(* threshold) in community c the listing of c has exactly one line for i,  *)
(* with threshold t, whatever was stored before; /unwatch of a watched i   *)
(* answers "removed" and the listing has no line for i; /unwatch of an     *)
(* instrument not watched answers "not watched" and the listing of c is    *)
(* unchanged.                                                              *)
(***************************************************************************)
C9_RoundTrip ==
  [][cmds' # cmds =>
     \A g \in Communities, raw \in RawTickers :
       LET i == extract_ticker(raw)
           L == list_cmd(watches', g)
       IN /\ \A t \in ThresholdInputs :
               WatchHandled(g, raw, t) =>
                 /\ Cardinality(LinesOf(L, i)) = 1
                 /\ \A n \in LinesOf(L, i) : L[n] = <<i, t>>
                 /\ reply' = "watching"
          /\ UnwatchHandled(g, raw) =>
               IF LinesOf(list_cmd(watches, g), i) # {}
               THEN reply' = "removed" /\ LinesOf(L, i) = {}
               ELSE reply' = "not_watched" /\ L = list_cmd(watches, g)]_vars

\* a /watch has replaced the stored threshold 0.50 of KXA1 by 0.35
C9_Witness ==
  /\ cmds = 1
  /\ reply = "watching"
  /\ list_cmd(watches, "1") = << <<"KXA1", 35>>, <<"KXB2", NoneVal>> >>

(***************************************************************************)
(* C10.  Community isolation: a /watch or /unwatch for community c, and    *)
(* the clearing of a threshold by the sweep for c, leave the entries       *)
(* (instruments and thresholds) of every other community as they were.     *)
(***************************************************************************)
C10_Isolation ==
  [][/\ cmds' # cmds =>
        \A g \in Communities, raw \in RawTickers :
          ((\E t \in ThresholdInputs : WatchHandled(g, raw, t)) \/ UnwatchHandled(g, raw)) =>
            \A h \in Communities \ {g} : list_cmd(watches', h) = list_cmd(watches, h)
     /\ pc = "send" =>
        \A sent \in BOOLEAN :
          SendReturned(sent) =>
            \A h \in Communities \ {sweep.gid} :
              list_cmd(watches', h) = list_cmd(watches, h)]_vars

\* KXA1 was alerted and cleared in "1" and keeps its threshold in "2"
C10_Witness ==
  /\ notified[<<"1", "KXA1">>] = 1
  /\ list_cmd(watches, "1")[1] = <<"KXA1", NoneVal>>
  /\ list_cmd(watches, "2") = << <<"KXA1", 50>> >>

(***************************************************************************)
(* The price tapes, as seen from a pair of states.                         *)
(***************************************************************************)
\* record_price(ticker, yes) ran in this step (the clock stands still meanwhile)
PriceRecorded(ticker, yes) ==
  now' = now /\ \E ok \in Outcomes : vol_cmd(ticker, yes, ok)

\* _record_snapshot(ticker, yes_est) ran in this step, inside _vol_cmd
QuoteRecorded(ticker, yes_est) ==
  now' = now /\ \E minutes \in Lookbacks, ok \in Outcomes :
                  _vol_cmd(ticker, minutes, yes_est, ok)

TapePrices == (SweepYes \cup VolYes) \ {NoneVal}

\* what a record at time t leaves as the series of timestamps ts and prices ps
TapeKept(ts, ps, yes, t) ==
  /\ ts # <<>>
  /\ ts[Len(ts)] = t
  /\ ps[Len(ps)] = yes
  /\ \A n \in DOMAIN ts : \A m \in DOMAIN ts : n <= m => ts[n] <= ts[m]
  /\ \A n \in DOMAIN ts : ts[n] >= t - 259200
  /\ \A n \in DOMAIN ps : ps[n] # NoneVal

(***************************************************************************)
(* C11.  Price-history invariant, for both tapes: a record without a price *)
(* changes nothing; a record of a price at time now leaves a series that   *)
(* ends with (now, price), has non-decreasing timestamps, holds no sample  *)
(* older than now - 72 h and none without a price, and leaves the series   *)
(* of the other instruments as they were.                                  *)
(***************************************************************************)
C11_HistoryInvariant ==
  [][\A i \in Tickers :
       /\ PriceRecorded(i, NoneVal) => histories' = histories /\ histFile' = histFile
       /\ QuoteRecorded(i, NoneVal) => quotes' = quotes /\ quotesFile' = quotesFile
       /\ \A yes \in TapePrices :
            /\ PriceRecorded(i, yes) =>
                 /\ TapeKept([n \in DOMAIN histories'[i] |-> histories'[i][n][1]],
                             [n \in DOMAIN histories'[i] |-> histories'[i][n][2]], yes, now)
                 /\ \A j \in Tickers \ {i} : histories'[j] = histories[j]
            /\ QuoteRecorded(i, yes) =>
                 /\ TapeKept([n \in DOMAIN quotes'[i] |-> quotes'[i][n].ts],
                             [n \in DOMAIN quotes'[i] |-> quotes'[i][n].yes], yes, now)
                 /\ \A j \in Tickers \ {i} : quotes'[j] = quotes[j]]_vars

\* _vol_cmd asked _delta_over_minutes about ticker over `minutes` in this step
DeltaAsked(ticker, minutes) ==
  now' = now /\ \E yes_est \in VolYes, ok \in Outcomes :
                  _vol_cmd(ticker, minutes, yes_est, ok)

\* the samples of a series not older than 72 h when its latest one was recorded
Retained(series) ==
  {n \in DOMAIN series : series[n].ts >= series[Len(series)].ts - 259200}

(***************************************************************************)
(* C12.  History trimming is visible to delta queries: the from-price and  *)
(* the to-price of every delta are prices of samples that were at most     *)
(* 72 h old when the latest sample of the instrument was recorded.         *)
(***************************************************************************)
C12_TrimmedUnseen ==
  [][\A i \in Tickers, minutes \in Lookbacks :
       (DeltaAsked(i, minutes) /\ delta' # NoDelta) =>
         /\ \E n \in Retained(quotes'[i]) : delta'.frm = quotes'[i][n].yes
         /\ \E n \in Retained(quotes'[i]) : delta'.to = quotes'[i][n].yes]_vars

\* the samples of a series that are at least `minutes` old at time t
OldEnough(series, minutes, t) ==
  {n \in DOMAIN series : series[n].ts <= t - 60 * minutes}

\* the latest of a non-empty set of samples (indices in list order)
Latest(ns) == CHOOSE n \in ns : \A m \in ns : m <= n

(***************************************************************************)
(* C13.  delta baseline: when some sample is at least `minutes` old, the   *)
(* from-price is the price of the most recent such sample, the to-price is *)
(* the price of the latest sample and the delta is to - from in cents.     *)
(***************************************************************************)
C13_Baseline ==
  [][\A i \in Tickers, minutes \in Lookbacks :
       LET series == quotes'[i]
           old == OldEnough(series, minutes, now)
       IN (DeltaAsked(i, minutes) /\ old # {}) =>
            /\ delta'.frm = series[Latest(old)].yes
            /\ delta'.to = series[Len(series)].yes
            /\ delta'.delta = series[Len(series)].yes - series[Latest(old)].yes]_vars

\* the series is not empty and none of its samples is `minutes` old at time t
NoneOldEnough(series, minutes, t) ==
  series # <<>> /\ OldEnough(series, minutes, t) = {}

\* whole minutes between the first and the last sample of a series
ElapsedMinutes(series) == (series[Len(series)].ts - series[1].ts) \div 60

(***************************************************************************)
(* C14.  delta fallback: when the series is not empty and no sample is     *)
(* `minutes` old, the delta compares the very first with the very last    *)
(* sample, and the window reported is the time elapsed between those two   *)
(* samples in whole minutes, not the lookback that was asked for.          *)
(***************************************************************************)
C14_Fallback ==
  [][\A i \in Tickers, minutes \in Lookbacks :
       LET series == quotes'[i]
       IN (DeltaAsked(i, minutes) /\ NoneOldEnough(series, minutes, now)) =>
            /\ delta'.frm = series[1].yes
            /\ delta'.to = series[Len(series)].yes
            /\ delta'.delta = series[Len(series)].yes - series[1].yes
            /\ delta'.window = ElapsedMinutes(series)]_vars

(***************************************************************************)
(* C15.  Persistence invariant: while no write fails, at every suspension  *)
(* point the document on disk of each store equals the store in memory in  *)
(* full, under every interleaving of the handlers and the sweep.           *)
(***************************************************************************)
C15_Persisted ==
  /\ watchFile = watches
  /\ histFile = histories
  /\ quotesFile = quotes

\* the sweep has recorded a price and cleared a threshold, and a handler has
\* then removed an entry: the document on disk holds all three mutations
C15_Witness ==
  /\ SamplesHeld > 0
  /\ \E p \in Communities \X Tickers : notified[p] > 0
  /\ reply = "removed"
  /\ watches \notin StartupDocs
  /\ watchFile = watches
  /\ histFile = histories

(***************************************************************************)
(* C16.  Persistence failure: whatever the write of a mutation does, the   *)
(* operation completes (watch and unwatch reply, the sweep goes on to the  *)
(* next instrument), the store in memory keeps the mutation, and the       *)
(* document on disk is the store in full (the write succeeded) or keeps    *)
(* its previous content (the write failed).                                *)
(***************************************************************************)
C16_WriteFailure ==
  [][/\ \A g \in Communities, raw \in RawTickers, t \in ThresholdInputs :
          WatchHandled(g, raw, t) =>
            /\ reply' = "watching"
            /\ Watched(watches', g, extract_ticker(raw))
            /\ Threshold(watches', g, extract_ticker(raw)) = t
            /\ watchFile' \in {watches', watchFile}
     /\ \A g \in Communities, raw \in RawTickers :
          UnwatchHandled(g, raw) =>
            /\ reply' \in {"removed", "not_watched"}
            /\ ~Watched(watches', g, extract_ticker(raw))
            /\ watchFile' \in {watches', watchFile}
     /\ \A yes \in SweepYes \ {NoneVal} :
          FetchReturned(yes) =>
            /\ pc' \in {"fetch", "send", "sleep"}
            /\ Len(histories'[sweep.ticker]) > 0
            /\ histories'[sweep.ticker][Len(histories'[sweep.ticker])][2] = yes
            /\ histFile' \in {histories', histFile}
     /\ (SendReturned(TRUE) /\ Watched(watches, sweep.gid, sweep.ticker)) =>
            /\ pc' \in {"fetch", "sleep"}
            /\ Threshold(watches', sweep.gid, sweep.ticker) = NoneVal
            /\ watchFile' \in {watches', watchFile}]_vars

\* what bot.py's market_snapshot was handed is the detail record of a market
\* that is not closed and carries none of yes_ask, yes_bid and last_price
PricelessDetail ==
  /\ fx.impl = "bot"
  /\ fx.detail.status = "returned"
  /\ fx.detail.value.shape = "dict"
  /\ fx.detail.value.market = "record"
  /\ fx.detail.value.status \notin {"closed", "expired", "settled"}
  /\ fx.detail.value.yes_ask = NoneVal
  /\ fx.detail.value.yes_bid = NoneVal
  /\ fx.detail.value.last_price = NoneVal

\* the order book market_snapshot was handed has a level on its yes side
UsableBook ==
  /\ fx.book.status = "returned"
  /\ fx.book.value.shape = "dict"
  /\ fx.book.value.yes # <<>>
  /\ ~\E n \in DOMAIN fx.book.value.yes : fx.book.value.yes[n] = Mistyped

(***************************************************************************)
(* C17.  Order-book fallback on a missing price: a market_snapshot of      *)
(* bot.py whose detail fetch succeeded for a market that is not closed,    *)
(* with none of yes_ask, yes_bid and last_price in the record, has fetched *)
(* the order book, and returns a price when the book has a usable level.   *)
(***************************************************************************)
C17_BookOnMissingPrice ==
  (fx.pc = "done" /\ PricelessDetail) =>
    /\ fx.book.status # "none"
    /\ UsableBook => fx.result.yes # NoneVal

(***************************************************************************)
(* C18.  Resolving a snapshot does not mutate shared state: no step of a   *)
(* market_snapshot call, of either module, changes the watchlist or a      *)
(* price history, in memory or on disk.                                    *)
(***************************************************************************)
C18_SnapshotPure ==
  [][(fx' # fx) =>
       UNCHANGED <<watches, watchFile, histories, histFile, quotes, quotesFile, gen>>]_vars

(***************************************************************************)
(* C19.  Every price sample stored in a history lies in [0, 1], 0 to 100   *)
(* in cents, whatever integer cent values the detail record or the order   *)
(* book returned.                                                          *)
(***************************************************************************)
C19_SamplesInRange ==
  \A i \in Tickers :
    /\ \A n \in DOMAIN histories[i] :
         histories[i][n][2] >= 0 /\ histories[i][n][2] <= 100
    /\ \A n \in DOMAIN quotes[i] :
         quotes[i][n].yes >= 0 /\ quotes[i][n].yes <= 100

(***************************************************************************)
(* C20.  Threshold domain: in every reachable state the threshold of each  *)
(* stored watch entry is absent or a number in (0, 1], 1 to 100 in cents,  *)
(* whatever the watch commands were given.                                 *)
(***************************************************************************)
C20_ThresholdDomain ==
  \A g \in Communities, i \in Tickers :
    Watched(watches, g, i) =>
      \/ Threshold(watches, g, i) = NoneVal
      \/ Threshold(watches, g, i) > 0 /\ Threshold(watches, g, i) <= 100

(***************************************************************************)
(* C21.  A delta query on a series of exactly one sample, for every        *)
(* lookback and at every query time, gives a delta of 0 cents with the     *)
(* from-price and the to-price both the price of that sample, and never    *)
(* "no data".                                                              *)
(***************************************************************************)
C21_SingleSample ==
  [][\A i \in Tickers, minutes \in Lookbacks :
       (DeltaAsked(i, minutes) /\ Len(quotes'[i]) = 1) =>
         /\ delta' # NoDelta
         /\ delta'.delta = 0
         /\ delta'.frm = quotes'[i][1].yes
         /\ delta'.to = quotes'[i][1].yes]_vars

\* the only sample of KXA1 was recorded at 0; after a sample of KXB2 at a later
\* instant, a query for KXA1 that recorded nothing has given 0 from 35 to 35
C21_Witness ==
  /\ quotes["KXA1"] = << [ts |-> 0, yes |-> 35] >>
  /\ quotes["KXB2"] = << [ts |-> RetentionSecs, yes |-> 55] >>
  /\ now = RetentionSecs + 60
  /\ delta = [delta |-> 0, frm |-> 35, to |-> 35, window |-> 1]

(***************************************************************************)
(* C22.  Unwatch under interleaving: the sweep starts the send of a        *)
(* notification only for a pair that is still watched, also when the       *)
(* unwatch ran while the sweep, having read the threshold, awaited the     *)
(* snapshot; and a send that returned never makes the sweep raise and      *)
(* leave out the remaining instruments.                                    *)
(***************************************************************************)
C22_UnwatchHolds ==
  [][/\ \A yes \in SweepYes :
          (FetchReturned(yes) /\ pc' = "send") =>
            Watched(watches, sweep.gid, sweep.ticker)
     /\ SendReturned(TRUE) => pc' # "backoff"]_vars

(***************************************************************************)
(* C23.  Clear-after-send ordering: the sweep makes a threshold absent     *)
(* only in the step in which the send for that pair returned; a send that  *)
(* raised leaves the watchlist and its file as they were and sends the     *)
(* loop to its back-off, from which the next sweep starts and reads the    *)
(* thresholds stored then.                                                 *)
(***************************************************************************)
C23_ClearAfterSend ==
  [][/\ \A p \in Pairs :
          ( /\ cmds' = cmds
            /\ Threshold(watches, p[1], p[2]) # NoneVal
            /\ Watched(watches', p[1], p[2])
            /\ Threshold(watches', p[1], p[2]) = NoneVal ) =>
            /\ SendReturned(TRUE)
            /\ sweep.gid = p[1] /\ sweep.ticker = p[2]
            /\ notified'[p] = notified[p] + 1
     /\ SendReturned(FALSE) =>
            /\ watches' = watches
            /\ watchFile' = watchFile
            /\ notified' = notified
            /\ pc' = "backoff"
     /\ (pc = "backoff" /\ pc' # pc) => pc' = "scan"
     /\ (pc = "scan" /\ pc' = "fetch") =>
            sweep'.thr = Threshold(watches, sweep'.gid, sweep'.ticker)]_vars

\* a send has raised: the loop is in its back-off, nothing was notified and the
\* threshold the sweep compared with is still stored, in memory and on disk
C23_Witness ==
  /\ pc = "backoff"
  /\ \A p \in Pairs : notified[p] = 0
  /\ Threshold(watches, "1", "KXA1") = 50
  /\ Threshold(watchFile, "1", "KXA1") = 50
  /\ histories["KXA1"] # <<>>

Order(W, g) == DictKeys(DictGet(W, g, <<>>))

\* the sweep is between its first fetch and the end of its last send
InSweep == pc \in {"fetch", "send"}

\* the pairs the sweep in flight will still fetch: the rest of the items it
\* listed for its community, and the watchlists of the communities to come
Remaining ==
  {<<sweep.gid, sweep.iq[n].k>> : n \in DOMAIN sweep.iq}
    \cup {q \in Pairs : /\ \E n \in DOMAIN sweep.gq : sweep.gq[n] = q[1]
                        /\ q[1] \in viable
                        /\ Watched(watches, q[1], q[2])}

\* the same after the step
RemainingAfter ==
  {<<sweep'.gid, sweep'.iq[n].k>> : n \in DOMAIN sweep'.iq}
    \cup {q \in Pairs : /\ \E n \in DOMAIN sweep'.gq : sweep'.gq[n] = q[1]
                        /\ q[1] \in viable'
                        /\ Watched(watches', q[1], q[2])}

\* a /watch in this step has added instrument i to community g
Added(g, i) ==
  /\ ~Watched(watches, g, i)
  /\ \E raw \in RawTickers, t \in ThresholdInputs :
        extract_ticker(raw) = i /\ WatchHandled(g, raw, t)

\* the order in which one sweep goes through a community, and what the
\* commands do to the order of a watchlist
SweepOrder ==
  /\ \* on reaching a community the sweep lists its watchlist in insertion order
     (pc' = "fetch" /\ sweep'.gid # sweep.gid) =>
        <<sweep'.ticker>> \o DictKeys(sweep'.iq) = Order(watches, sweep'.gid)
  /\ \* within the community it takes the listed items one after the other
     (InSweep /\ pc' = "fetch" /\ sweep'.gid = sweep.gid /\ sweep' # sweep) =>
        /\ sweep.iq # <<>>
        /\ sweep'.ticker = sweep.iq[1].k
        /\ sweep'.iq = Tail(sweep.iq)
  /\ \* commands leave the list of the sweep alone
     (cmds' # cmds) => (sweep' = sweep /\ pc' = pc)
  /\ \A g \in Communities, raw \in RawTickers :
       LET i == extract_ticker(raw)
       IN /\ \A t \in ThresholdInputs :
               WatchHandled(g, raw, t) =>
                 Order(watches', g) = IF Watched(watches, g, i)
                                      THEN Order(watches, g)
                                      ELSE Append(Order(watches, g), i)
          /\ UnwatchHandled(g, raw) =>
               Order(watches', g) = SelectSeq(Order(watches, g), LAMBDA k : k # i)

(***************************************************************************)
(* C25.  Within one sweep the instruments of a community are processed in  *)
(* the insertion order of its watchlist as it was when the sweep reached   *)
(* the community; watching an instrument already present keeps its        *)
(* position, unwatch followed by watch moves it to the end; an instrument  *)
(* added to a community the sweep has already reached is first processed   *)
(* in the next sweep.                                                      *)
(***************************************************************************)
C25_SweepOrder ==
  [][/\ SweepOrder
     /\ \A g \in Communities, i \in Tickers :
          ( /\ InSweep
            /\ Added(g, i)
            /\ ~\E n \in DOMAIN sweep.gq : sweep.gq[n] = g ) =>
            RemainingAfter = Remaining]_vars

\* the sweep listed KXA1 before KXB2 in community 1; KXA1 was then removed and
\* watched again, which moved it to the end, and the sweep is at KXB2, the last
\* item of its list
C25_Witness ==
  /\ pc = "fetch"
  /\ sweep.gid = "1"
  /\ sweep.ticker = "KXB2"
  /\ sweep.iq = <<>>
  /\ Order(watches, "1") = <<"KXB2", "KXA1">>
  /\ cmds = 2

\* C25 as stated: an instrument added during the sweep, to whatever community,
\* is first processed in the next sweep
C25_AsStated ==
  [][/\ SweepOrder
     /\ \A g \in Communities, i \in Tickers :
          (InSweep /\ Added(g, i)) => RemainingAfter = Remaining]_vars

\* the communities the sweep has yet to go through, before this step
ToCome == IF pc = "scan" THEN DictKeys(watches) ELSE sweep.gq

\* the sweep passes over community g: it has no channel, or nothing is watched
Passed(g) == g \notin viable \/ DictGet(watches, g, <<>>) = <<>>

(***************************************************************************)
(* C26.  A community without a viable channel is skipped by the sweep: no  *)
(* snapshot is fetched and no notification sent on its behalf, no step of  *)
(* the sweep changes its entries or its notification counts, and the sweep *)
(* goes on to the first community after it that has a channel and entries. *)
(***************************************************************************)
C26_Skipped ==
  [][/\ (pc' \in {"fetch", "send"}) => sweep'.gid \in viable
     /\ \A g \in Communities \ viable :
          (cmds' = cmds) =>
            /\ DictGet(watches', g, <<>>) = DictGet(watches, g, <<>>)
            /\ \A i \in Tickers : notified'[<<g, i>>] = notified[<<g, i>>]
     /\ (pc' = "fetch" /\ sweep'.gid # sweep.gid) =>
          LET skipped == Len(ToCome) - Len(sweep'.gq) - 1
          IN /\ skipped >= 0
             /\ ToCome[skipped + 1] = sweep'.gid
             /\ \A n \in 1..skipped : Passed(ToCome[n])
     /\ (pc \in {"scan", "fetch", "send"} /\ pc' = "sleep") =>
          \A n \in DOMAIN ToCome : Passed(ToCome[n])]_vars

\* community 2, first in the watchlist, has no channel: the sweep is fetching
\* for community 1, and the entry of community 2 keeps its threshold unnotified
C26_Witness ==
  /\ viable = {"1"}
  /\ DictKeys(watches) = <<"2", "1">>
  /\ pc = "fetch"
  /\ sweep.gid = "1"
  /\ \E i \in Tickers : /\ Threshold(watches, "2", i) # NoneVal
                         /\ notified[<<"2", i>>] = 0
  /\ histories = [t \in Tickers |-> <<>>]

\* market_snapshot, of either module, has returned after reading an order book
\* whose levels all carry numeric prices
BookRead ==
  /\ fx.pc = "done"
  /\ fx.book.status = "returned"
  /\ fx.book.value.shape = "dict"
  /\ ~HasMistyped(fx.book.value.yes)
  /\ ~HasMistyped(fx.book.value.no)

(***************************************************************************)
(* C27.  Order-book price derivation: a snapshot that read the order book  *)
(* returns the lowest price of the yes side when that side has levels, and *)
(* 1 - price of the no side when only the no side has levels; its price is *)
(* absent only when both sides are empty.                                  *)
(***************************************************************************)
C27_BookPrice ==
  BookRead =>
    LET yside == fx.book.value.yes
        nside == fx.book.value.no
    IN /\ yside # <<>> => fx.result.yes = SeqMin(yside)
       /\ (yside = <<>> /\ nside # <<>>) =>
            \E n \in DOMAIN nside : fx.result.yes = 100 - nside[n]
       /\ fx.result.yes = NoneVal => (yside = <<>> /\ nside = <<>>)

\* chunk k of the yielded chunks is lines[cut[k-1]+1 .. cut[k]] joined by sep
RunOf(lines, cut, k) ==
  SubSeq(lines, (IF k = 1 THEN 0 ELSE cut[k - 1]) + 1, cut[k])

\* the yielded chunks are consecutive non-empty runs of the lines, each joined
\* by sep, that cover the lines once and in order
SplitAtSeparator(lines, out, sep) ==
  IF out = <<>> THEN lines = <<>>
  ELSE \E cut \in [DOMAIN out -> DOMAIN lines] :
         /\ cut[Len(out)] = Len(lines)
         /\ \A k \in DOMAIN out :
              /\ k > 1 => cut[k - 1] < cut[k]
              /\ out[k] = Join(RunOf(lines, cut, k), sep)

(***************************************************************************)
(* C28.  chunk_lines(lines, max_chars, sep): the yielded chunks are the    *)
(* input lines, once each and in order, split apart only between lines;    *)
(* no chunk is empty; and every chunk has length <= max_chars provided     *)
(* every line has length <= max_chars.                                     *)
(***************************************************************************)
C28_Chunks ==
  gen.pc = "done" =>
    /\ SplitAtSeparator(gen.lines, gen.out, gen.sep)
    /\ \A k \in DOMAIN gen.out : gen.out[k] # <<>>
    /\ (\A n \in DOMAIN gen.lines : Len(gen.lines[n]) <= gen.max_chars) =>
         \A k \in DOMAIN gen.out : Len(gen.out[k]) <= gen.max_chars

====
